---- MODULE Spec2Model ----
(***************************************************************************)
(* Model of the Video module's conversion driver: run.py (run.main,        *)
(* run_video_processing) and Tools/process/Main.py (find_ffmpeg, main).    *)
(*                                                                         *)
(* A file name is the sequence of its dot-separated segments               *)
(* ("a.b.vp6" is <<"a","b","vp6">>), a relative path is the sequence of    *)
(* its names, and a tree is a function from the relative paths that exist  *)
(* to what is there.  The empty path <<>> is the root of a tree.           *)
(***************************************************************************)
EXTENDS Integers, Sequences, FiniteSets, TLC

\* ------------------------------------------------------------- bounds
MaxFiles == 2      \* entries of the source tree
MaxRuns  == 2      \* consecutive runs of the script over the same source

\* ------------------------------------------------------------- pathlib
\* PurePath.suffix: the part of the name from its last dot on, or none.
suffix(nm) == IF Len(nm) >= 2 THEN nm[Len(nm)] ELSE ""

\* PurePath.stem: the name without its suffix.
stem(nm) == IF suffix(nm) # "" THEN SubSeq(nm, 1, Len(nm) - 1) ELSE nm

\* PurePath.with_suffix: the old suffix, when there is one, is REPLACED.
with_suffix(nm, sfx) ==
    IF suffix(nm) = "" THEN nm \o <<sfx>>
    ELSE SubSeq(nm, 1, Len(nm) - 1) \o <<sfx>>

parent(p) == SubSeq(p, 1, Len(p) - 1)
name(p)   == p[Len(p)]

exists(tree, p)  == p \in DOMAIN tree
is_dir(tree, p)  == p \in DOMAIN tree /\ tree[p].kind = "dir"
is_file(tree, p) == p \in DOMAIN tree /\ tree[p].kind = "file"

\* str.lower on the segments the model uses
lower(seg) == IF seg = "VP6" THEN "vp6" ELSE seg

\* fnmatch of a name against "*.vp6"; pathlib folds case on Windows only
fnmatch_vp6(nm, plat) ==
    /\ Len(nm) >= 2
    /\ IF plat = "Windows" THEN lower(nm[Len(nm)]) = "vp6"
       ELSE nm[Len(nm)] = "vp6"

\* Path.rglob("*.vp6"): every entry below the root, file or directory,
\* whose name matches.
rglob(tree, plat) == { p \in DOMAIN tree : Len(p) >= 1 /\ fnmatch_vp6(name(p), plat) }

Dir == [kind |-> "dir", by |-> <<>>, full |-> TRUE]
File(by, full) == [kind |-> "file", by |-> by, full |-> full]

WithEntry(tree, p, e) == [q \in DOMAIN tree \cup {p} |-> IF q = p THEN e ELSE tree[q]]

\* Path.mkdir(parents=True, exist_ok=True): ok is FALSE when it raises
\* (FileExistsError, NotADirectoryError); nothing is created in that case.
RECURSIVE mkdir(_, _)
mkdir(tree, p) ==
    IF exists(tree, p) THEN [ok |-> is_dir(tree, p), tree |-> tree]
    ELSE IF p = <<>> THEN [ok |-> TRUE, tree |-> WithEntry(tree, p, Dir)]
    ELSE LET up == mkdir(tree, parent(p))
         IN  IF up.ok THEN [ok |-> TRUE, tree |-> WithEntry(up.tree, p, Dir)]
             ELSE up

\* ------------------------------------------------------------- Main.py
\* lines 126-129: the target of a source file
relative_path(file_path) == file_path
target_path_base(file_path) == parent(relative_path(file_path)) \o <<stem(name(file_path))>>
ogv_of(file_path) ==
    parent(target_path_base(file_path))
        \o <<with_suffix(name(target_path_base(file_path)), "ogv")>>

\* lines 7-10: the names Main.py imports from printer
ImportedNames == {"print", "print_error", "print_verbose", "print_debug", "colours"}

\* calling a module-level name: a name that was never bound raises NameError
Call(fn) == IF fn \in ImportedNames THEN "ok" ELSE "NameError"

Returns(v, w) == [raised |-> "none", ret |-> v, which |-> w]
Raises(e, w)  == [raised |-> e, ret |-> "None", which |-> w]

\* lines 64-66: the handler of a failed PATH lookup
path_lookup_failed(w) ==
    IF Call("print_warning") = "ok" THEN Returns("None", w)
    ELSE Raises(Call("print_warning"), w)

\* lines 31-66.  c describes the configured reference: whether it is
\* absolute, whether it is a file as given / below the project directory /
\* below the module directory, and what `which`/`where` does with it.
\* The result says what is returned (which form of the path) or raised and
\* how many child processes were started.
find_ffmpeg(c) ==
    IF c.is_absolute /\ c.is_file THEN Returns("absolute", 0)
    ELSE IF c.is_absolute /\ Call("print_warning") # "ok"
        THEN Raises(Call("print_warning"), 0)
    ELSE IF c.proj_is_file THEN Returns("project_relative", 0)
    ELSE IF c.mod_is_file THEN Returns("module_relative", 0)
    ELSE IF c.which = "found" THEN Returns("config_path", 1)
    ELSE IF c.which = "not_found" THEN path_lookup_failed(1)
    ELSE path_lookup_failed(0)

\* lines 16-20: some strategy finds the configured reference
resolvable(c) ==
    \/ c.is_absolute /\ c.is_file
    \/ c.proj_is_file
    \/ c.mod_is_file
    \/ c.which = "found"

\* the environments find_ffmpeg can meet: joining an absolute path to a
\* directory gives the absolute path back
FfmpegEnv ==
    { c \in [is_absolute : BOOLEAN, is_file : BOOLEAN, proj_is_file : BOOLEAN,
             mod_is_file : BOOLEAN, which : {"found", "not_found", "no_which"}] :
        /\ c.is_absolute => (c.proj_is_file = c.is_file /\ c.mod_is_file = c.is_file)
        /\ c.is_absolute => c.which # "found" \/ c.is_file
        /\ ~c.is_absolute => ~c.is_file }

\* a handler that catches BaseException
BaseExceptionClasses == {"NameError", "SystemExit"}

\* run.py line 49: `except Exception` catches NameError, not SystemExit
ExceptionClasses == {"NameError"}
caught_by_except_Exception(e) == e \in ExceptionClasses

\* ------------------------------------------------------------- inputs
A_VP6     == <<"a", "vp6">>
A_B_VP6   == <<"a", "b", "vp6">>
B_VP6_UC  == <<"b", "VP6">>
C_TXT     == <<"c", "txt">>
SUB       == <<"sub">>
A_OGV     == <<"a", "ogv">>
D_VP6     == <<"d", "vp6">>

\* the entries a source tree is made of
SourceCandidates ==
    { [path |-> <<A_VP6>>,        kind |-> "file"],
      [path |-> <<A_B_VP6>>,      kind |-> "file"],
      [path |-> <<B_VP6_UC>>,     kind |-> "file"],
      [path |-> <<C_TXT>>,        kind |-> "file"],
      [path |-> <<SUB, A_VP6>>,   kind |-> "file"],
      [path |-> <<A_OGV, A_VP6>>, kind |-> "file"],
      [path |-> <<D_VP6>>,        kind |-> "dir"] }

EmptyTree == [p \in {} |-> Dir]
RootOnly  == [p \in {<<>>} |-> Dir]

KindIn(S, p) == (CHOOSE e \in S : e.path = p).kind

\* the tree holding the entries S and the directories above them
TreeOf(S) ==
    LET leaves == { e.path : e \in S }
        dirs   == {<<>>} \cup { parent(p) : p \in leaves }
    IN  [p \in leaves \cup dirs |->
            IF p \in leaves /\ KindIn(S, p) = "file" THEN File(<<>>, TRUE) ELSE Dir]

SourceTrees ==
    { TreeOf(S) : S \in { T \in SUBSET SourceCandidates : Cardinality(T) <= MaxFiles } }
        \cup { EmptyTree, [p \in {<<>>} |-> File(<<>>, TRUE)] }

\* what is below the target root before the first run
TargetTrees ==
    { EmptyTree, RootOnly,
      [p \in {<<>>, <<A_OGV>>} |-> IF p = <<>> THEN Dir ELSE File(<<>>, TRUE)] }

Configs == {"ok", "init_failed", "no_target_key", "no_tools_key"}
Answers == {"y", "Y", "n", "other"}

\* what one encoder invocation does: the process cannot be started
\* (returncode -1 stands for the exception subprocess.run raises), it
\* exits 0 having written its output, or it exits 1 leaving either nothing
\* or a partial output file behind
EncoderResults ==
    { [returncode |-> -1, wrote |-> FALSE],
      [returncode |-> 0,  wrote |-> TRUE],
      [returncode |-> 1,  wrote |-> FALSE],
      [returncode |-> 1,  wrote |-> TRUE] }

\* the orders rglob can yield a set of matches in: the entries of a
\* directory before those of its subdirectories, one directory at a time
Orders(S) ==
    { s \in [1..Cardinality(S) -> S] :
        /\ \A i, j \in 1..Cardinality(S) : i # j => s[i] # s[j]
        /\ \A i, j \in 1..Cardinality(S) : i < j => Len(s[i]) <= Len(s[j])
        /\ \A i, j, k \in 1..Cardinality(S) :
              (i < k /\ k < j /\ parent(s[i]) = parent(s[j])) => parent(s[k]) = parent(s[i]) }

\* ------------------------------------------------------------- state
VARIABLES
    platform,           \* platform.system(): "Windows" or another system
    source_tree,        \* what is at and below source_dir
    target_tree,        \* what is at and below target_dir
    run,                \* which run of the script this is
    pc,                 \* where the run is
    config,             \* what conf.main returned to this run
    is_main,            \* __name__ == "__main__" in run.py
    user_input,         \* the answer read by run.main, "none" when not asked
    exc,                \* the exception leaving Main.main, "none" otherwise
    exit_status,        \* -1 while the script runs, then its exit status
    ffmpeg_executable,  \* what find_ffmpeg returned
    which_calls,        \* `which`/`where` processes started by this run
    vp6_files,          \* the list rglob produced
    idx,                \* position of the loop in vp6_files
    ogv_file,           \* the target of the job being processed
    conversion_errors,  \* the failure counter of main
    outcome,            \* the state each job of this run has reached
    encoder_log,        \* the encoder invocations of this run, in order
    summary,            \* which closing message this run printed
    tree_at_start,      \* target_tree when this run started
    encoder_found,      \* whether some strategy could resolve the encoder
    prev                \* the previous run: how the driver ended, the outcome
                        \* of its jobs, the jobs whose encoder left a file

vars == <<platform, source_tree, target_tree, run, pc, config, is_main, user_input,
          exc, exit_status, ffmpeg_executable, which_calls, vp6_files, idx, ogv_file,
          conversion_errors, outcome, encoder_log, summary, tree_at_start,
          encoder_found, prev>>

env_vars  == <<platform, source_tree>>
loop_vars == <<vp6_files, idx, ogv_file, conversion_errors, outcome, encoder_log>>

NoOutcome == [j \in {} |-> "Discovered"]
NoPrev    == [driver |-> "none", outcome |-> NoOutcome, wrote |-> {}]

Init ==
    /\ platform \in {"Windows", "Linux"}
    /\ source_tree \in SourceTrees
    /\ target_tree \in TargetTrees
    /\ run = 1
    /\ pc = "start"
    /\ config = "none"
    /\ is_main = FALSE
    /\ user_input = "none"
    /\ exc = "none"
    /\ exit_status = -1
    /\ ffmpeg_executable = "None"
    /\ which_calls = 0
    /\ vp6_files = <<>>
    /\ idx = 0
    /\ ogv_file = <<>>
    /\ conversion_errors = 0
    /\ outcome = NoOutcome
    /\ encoder_log = <<>>
    /\ summary = "none"
    /\ tree_at_start = target_tree
    /\ encoder_found = "unknown"
    /\ prev = NoPrev

\* ------------------------------------------------------------- run.py
\* run.main, lines 54-92, up to the call of run_video_processing: init,
\* the lookup of MOV_TARGET_DIR and the gate on the target directory.
\* line 85: input(...).strip().lower() on the answers the model uses
strip_lower(answer) == IF answer = "Y" THEN "y" ELSE answer

\* a gate that takes every answer but 'n' for a yes
needs_processing_unless_no(tree, as_main, answer) ==
    IF ~exists(tree, <<>>) THEN TRUE
    ELSE as_main /\ answer # "n"

\* lines 77-87: whether run_video_processing is called
needs_processing(tree, as_main, answer) ==
    IF ~exists(tree, <<>>) THEN TRUE
    ELSE as_main /\ answer = "y"

RunMain(cfg, as_main, answer) ==
    /\ pc = "start"
    /\ config' = cfg
    /\ is_main' = as_main
    /\ user_input' = IF exists(target_tree, <<>>) /\ as_main /\ cfg \notin {"init_failed", "no_target_key"}
                     THEN strip_lower(answer) ELSE "none"
    /\ IF cfg \in {"init_failed", "no_target_key"}
       THEN pc' = "exited" /\ exit_status' = 1
       ELSE IF needs_processing(target_tree, as_main, strip_lower(answer))
       THEN pc' = "main" /\ exit_status' = exit_status
       ELSE pc' = "exited" /\ exit_status' = 0
    /\ UNCHANGED <<env_vars, target_tree, run, exc, ffmpeg_executable, which_calls,
                   loop_vars, summary, tree_at_start, encoder_found, prev>>

\* run_video_processing, lines 44-50: Main.main returned
Returned ==
    /\ pc = "returned"
    /\ pc' = "exited"
    /\ exit_status' = 0
    /\ UNCHANGED <<env_vars, target_tree, run, config, is_main, user_input, exc,
                   ffmpeg_executable, which_calls, loop_vars, summary, tree_at_start, encoder_found, prev>>

\* run_video_processing, lines 49-50: Main.main raised.  An Exception is
\* logged and run.main goes on to its last line; SystemExit(1) ends the
\* script with status 1.
RaisedOut ==
    /\ pc = "raised"
    /\ pc' = "exited"
    /\ exit_status' = IF caught_by_except_Exception(exc) THEN 0 ELSE 1
    /\ UNCHANGED <<env_vars, target_tree, run, config, is_main, user_input, exc,
                   ffmpeg_executable, which_calls, loop_vars, summary, tree_at_start, encoder_found, prev>>

\* ------------------------------------------------------------- Main.main
\* lines 78-101: the configuration keys and the source directory
source_dir_ok(tree) == is_dir(tree, <<>>)

MainStart ==
    /\ pc = "main"
    /\ IF config = "no_tools_key" \/ ~source_dir_ok(source_tree)
       THEN pc' = "raised" /\ exc' = "SystemExit"
       ELSE pc' = "locate" /\ exc' = exc
    /\ UNCHANGED <<env_vars, target_tree, run, config, is_main, user_input, exit_status,
                   ffmpeg_executable, which_calls, loop_vars, summary, tree_at_start, encoder_found, prev>>

\* lines 104-108: find_ffmpeg and the check of its result
LocateFfmpeg(c) ==
    /\ pc = "locate"
    /\ LET r == find_ffmpeg(c)
       IN  /\ which_calls' = which_calls + r.which
           /\ IF r.raised # "none"
              THEN pc' = "raised" /\ exc' = r.raised /\ ffmpeg_executable' = ffmpeg_executable
              ELSE IF r.ret = "None"
              THEN pc' = "raised" /\ exc' = "SystemExit" /\ ffmpeg_executable' = r.ret
              ELSE pc' = "discover" /\ exc' = exc /\ ffmpeg_executable' = r.ret
    /\ encoder_found' = IF resolvable(c) THEN "yes" ELSE "no"
    /\ UNCHANGED <<env_vars, target_tree, run, config, is_main, user_input, exit_status,
                   loop_vars, summary, tree_at_start, prev>>

\* lines 113-122: discovery
Discover(order) ==
    /\ pc = "discover"
    /\ order \in Orders(rglob(source_tree, platform))
    /\ vp6_files' = order
    /\ IF Len(order) = 0
       THEN /\ pc' = "returned" /\ summary' = "no_files"
            /\ UNCHANGED <<idx, conversion_errors, outcome>>
       ELSE /\ pc' = "plan" /\ summary' = summary
            /\ idx' = 1
            /\ conversion_errors' = 0
            /\ outcome' = [j \in rglob(source_tree, platform) |-> "Discovered"]
    /\ UNCHANGED <<env_vars, target_tree, run, config, is_main, user_input, exc, exit_status,
                   ffmpeg_executable, which_calls, ogv_file, encoder_log, tree_at_start, encoder_found, prev>>

\* a loop that never moves on to the next file
NextJob_stuck ==
    IF idx < Len(vp6_files) THEN idx' = idx /\ pc' = "plan"
    ELSE idx' = idx /\ pc' = "summary"

\* the for statement of line 124: the next file, or the end of the loop
NextJob ==
    IF idx < Len(vp6_files) THEN idx' = idx + 1 /\ pc' = "plan"
    ELSE idx' = idx /\ pc' = "summary"

\* the parent directories of every file of the list, made up front; what is
\* reported is whether the directory of files[i] could be made
RECURSIVE mkdir_upto(_, _, _)
mkdir_upto(tree, files, k) ==
    IF k = 0 THEN tree
    ELSE mkdir(mkdir_upto(tree, files, k - 1), parent(ogv_of(files[k]))).tree

mkdir_for_all(tree, files, i) ==
    [ok   |-> mkdir(tree, parent(ogv_of(files[i]))).ok,
     tree |-> mkdir_upto(tree, files, Len(files))]

\* line 132: the parent directories of the target of files[i]
mkdir_for(tree, files, i) == mkdir(tree, parent(ogv_of(files[i])))

\* lines 126-132: the target path and its parent directories.  mkdir
\* raising is caught at line 171.
PlanTarget ==
    /\ pc = "plan"
    /\ LET file_path == vp6_files[idx]
           made      == mkdir_for(target_tree, vp6_files, idx)
       IN  /\ ogv_file' = ogv_of(file_path)
           /\ target_tree' = made.tree
           /\ IF made.ok
              THEN /\ pc' = "check"
                   /\ UNCHANGED <<idx, conversion_errors, outcome>>
              ELSE /\ conversion_errors' = conversion_errors + 1
                   /\ outcome' = [outcome EXCEPT ![file_path] = "Failed"]
                   /\ NextJob
    /\ UNCHANGED <<env_vars, run, config, is_main, user_input, exc, exit_status,
                   ffmpeg_executable, which_calls, vp6_files, encoder_log, summary,
                   tree_at_start, encoder_found, prev>>

\* the skip decision with its condition inverted
should_skip_inverted(tree, target) == ~exists(tree, target)

\* the skip decision looking at target_path_base, the path without ".ogv"
should_skip_base(tree, target) == exists(tree, parent(target) \o <<stem(name(target))>>)

\* line 135: the skip decision
should_skip(tree, target) == exists(tree, target)

\* lines 135-142
SkipCheck ==
    /\ pc = "check"
    /\ IF should_skip(target_tree, ogv_file)
       THEN /\ outcome' = [outcome EXCEPT ![vp6_files[idx]] = "Skipped"]
            /\ NextJob
       ELSE /\ outcome' = [outcome EXCEPT ![vp6_files[idx]] = "Converting"]
            /\ pc' = "invoke" /\ idx' = idx
    /\ UNCHANGED <<env_vars, target_tree, run, config, is_main, user_input, exc, exit_status,
                   ffmpeg_executable, which_calls, vp6_files, ogv_file, conversion_errors,
                   encoder_log, summary, tree_at_start, encoder_found, prev>>

\* a failure test that misses the exception of a failed launch
job_failed_positive(res) == res.returncode > 0

\* lines 161-165 and 171-173: what the job counts as
job_failed(res) == res.returncode # 0

\* lines 145-173: the encoder runs on the current job
Invoke(res) ==
    /\ pc = "invoke"
    /\ LET file_path == vp6_files[idx]
       IN  /\ encoder_log' = Append(encoder_log,
                  [job |-> file_path, target |-> ogv_file,
                   existed |-> exists(target_tree, ogv_file),
                   returncode |-> res.returncode, wrote |-> res.wrote])
           /\ target_tree' = IF res.wrote
                             THEN WithEntry(target_tree, ogv_file, File(file_path, res.returncode = 0))
                             ELSE target_tree
           /\ conversion_errors' = IF job_failed(res) THEN conversion_errors + 1
                                   ELSE conversion_errors
           /\ outcome' = [outcome EXCEPT ![file_path] =
                              IF job_failed(res) THEN "Failed" ELSE "Converted"]
    /\ NextJob
    /\ UNCHANGED <<env_vars, run, config, is_main, user_input, exc, exit_status,
                   ffmpeg_executable, which_calls, vp6_files, ogv_file, summary,
                   tree_at_start, encoder_found, prev>>

\* a closing message that tolerates one failure
summary_line_lenient(errors) == IF errors > 1 THEN "errors" ELSE "all_ok"

\* lines 180-183: which closing message is printed
summary_line(errors) == IF errors > 0 THEN "errors" ELSE "all_ok"

\* lines 179-183
Summary ==
    /\ pc = "summary"
    /\ summary' = summary_line(conversion_errors)
    /\ pc' = "returned"
    /\ UNCHANGED <<env_vars, target_tree, run, config, is_main, user_input, exc, exit_status,
                   ffmpeg_executable, which_calls, loop_vars, tree_at_start, encoder_found, prev>>

\* run.py lines 96-97: the script is started again over the same source
Rerun ==
    /\ pc = "exited"
    /\ run < MaxRuns
    /\ run' = run + 1
    /\ pc' = "start"
    /\ prev' = [driver  |-> IF summary # "none" THEN "completed"
                            ELSE IF config \in {"ok", "no_tools_key"} /\ exc # "none" THEN "aborted"
                            ELSE "none",
                outcome |-> outcome,
                wrote   |-> { encoder_log[i].job : i \in { k \in 1..Len(encoder_log) : encoder_log[k].wrote } }]
    /\ config' = "none"
    /\ is_main' = FALSE
    /\ user_input' = "none"
    /\ exc' = "none"
    /\ exit_status' = -1
    /\ ffmpeg_executable' = "None"
    /\ which_calls' = 0
    /\ vp6_files' = <<>>
    /\ idx' = 0
    /\ ogv_file' = <<>>
    /\ conversion_errors' = 0
    /\ outcome' = NoOutcome
    /\ encoder_log' = <<>>
    /\ summary' = "none"
    /\ tree_at_start' = target_tree
    /\ encoder_found' = "unknown"
    /\ UNCHANGED <<env_vars, target_tree>>

Next ==
    \/ \E cfg \in Configs, as_main \in BOOLEAN, answer \in Answers : RunMain(cfg, as_main, answer)
    \/ MainStart
    \/ \E c \in FfmpegEnv : LocateFfmpeg(c)
    \/ \E order \in Orders(rglob(source_tree, platform)) : Discover(order)
    \/ PlanTarget
    \/ SkipCheck
    \/ \E res \in EncoderResults : Invoke(res)
    \/ Summary
    \/ Returned
    \/ RaisedOut
    \/ Rerun

Spec == Init /\ [][Next]_vars

\* ------------------------------------------------------------- properties
Terminal == {"Skipped", "Converted", "Failed"}
Jobs     == DOMAIN outcome

\* the driver was called by this run (run.py lines 77-87)
DriverInvoked ==
    /\ config \in {"ok", "no_tools_key"}
    /\ needs_processing(tree_at_start, is_main, user_input)

\* the loop of this run is over
LoopDone == summary \in {"all_ok", "errors"}

\* discovery of this run is over
Discovered == pc \in {"plan", "check", "invoke", "summary"} \/ summary # "none"

\* the previous run went through its whole loop (or found no file)
PrevCompleted == run >= 2 /\ prev.driver = "completed"

\* the encoder was not started by this run and the target tree is as it was
NothingConverted ==
    /\ encoder_log = <<>>
    /\ \A j \in Jobs : outcome[j] \in {"Discovered", "Skipped"}
    /\ LoopDone => \A j \in Jobs : outcome[j] = "Skipped"
    /\ target_tree = tree_at_start

\* C1 as stated: whatever the encoder did in the previous run, a run that
\* follows a completed run converts nothing, skips every job and leaves the
\* target tree as it found it.
C1_IdempotentAnyEncoder == PrevCompleted => NothingConverted

\* no job of the previous run failed
PrevClean == \A j \in DOMAIN prev.outcome : prev.outcome[j] \in {"Skipped", "Converted"}

\* C1 amended: a run that follows a completed run in which no job failed
\* converts nothing, skips every job and leaves the target tree as it found it.
C1_IdempotentAfterCleanRun == (PrevCompleted /\ PrevClean) => NothingConverted

C1_Witness ==
    /\ PrevCompleted /\ PrevClean
    /\ pc = "exited" /\ LoopDone
    /\ \E j \in DOMAIN prev.outcome : prev.outcome[j] = "Converted"
    /\ \E j \in Jobs : outcome[j] = "Skipped"

\* C2: in a run that follows a completed run the encoder is started only for
\* jobs that failed in (or were not part of) the previous run, and no job
\* that failed in the previous run is skipped, whatever its encoder left at
\* the target path.
C2_RerunRetriesFailed ==
    PrevCompleted =>
        /\ \A i \in 1..Len(encoder_log) :
              \/ encoder_log[i].job \notin DOMAIN prev.outcome
              \/ prev.outcome[encoder_log[i].job] = "Failed"
        /\ \A j \in Jobs :
              (j \in DOMAIN prev.outcome /\ prev.outcome[j] = "Failed") => outcome[j] # "Skipped"

\* C3: when no strategy resolves the encoder the script ends with a
\* non-zero status, without starting the encoder or touching the target tree.
C3_UnresolvedEncoderIsFatal ==
    (pc = "exited" /\ encoder_found = "no") =>
        /\ exit_status # 0
        /\ encoder_log = <<>>
        /\ target_tree = tree_at_start

\* the relative path with only its final extension replaced by .ogv
mirrored(p) == parent(p) \o << SubSeq(name(p), 1, Len(name(p)) - 1) \o <<"ogv">> >>

\* C4: the target of every job is its source path, relative to the roots,
\* with only the final extension replaced by .ogv.
C4_PathMirroring ==
    pc \in {"check", "invoke"} => ogv_file = mirrored(vp6_files[idx])

\* the files below the source root whose extension is .vp6 in any case
Vp6Files ==
    { p \in DOMAIN source_tree :
        /\ is_file(source_tree, p)
        /\ Len(p) >= 1
        /\ lower(suffix(name(p))) = "vp6" }

\* C5: discovery yields exactly the files whose extension is .vp6, compared
\* case-insensitively, each once.
C5_ExtensionFiltering ==
    Discovered =>
        /\ { vp6_files[i] : i \in 1..Len(vp6_files) } = Vp6Files
        /\ Len(vp6_files) = Cardinality(Vp6Files)

\* C6: the skip check skips a job exactly when its target exists as a
\* regular file.
C6_SkipIffRegularFile ==
    [][ pc = "check" =>
          ((outcome'[vp6_files[idx]] = "Skipped") <=> is_file(target_tree, ogv_file)) ]_vars

\* C7: two distinct files of one run never have the same target.
C7_TargetsNeverCollide ==
    \A i, j \in 1..Len(vp6_files) :
        i # j => ogv_of(vp6_files[i]) # ogv_of(vp6_files[j])

\* C8: the encoder is started for a target only after the skip check of the
\* same job found it absent, so it never runs on a target that exists.
C8_NoSilentOverwrite ==
    /\ \A i \in 1..Len(encoder_log) : ~encoder_log[i].existed
    /\ pc = "invoke" =>
          /\ outcome[vp6_files[idx]] = "Converting"
          /\ ~exists(target_tree, ogv_file)

C8_Witness ==
    /\ pc = "exited"
    /\ \E i \in 1..Len(encoder_log) : encoder_log[i].wrote
    /\ \E j \in Jobs : outcome[j] = "Skipped" /\ is_file(tree_at_start, ogv_of(j))

\* the jobs whose encoder could not be started or exited non-zero
EncoderFailed == { encoder_log[i].job : i \in { k \in 1..Len(encoder_log) : encoder_log[k].returncode # 0 } }
\* the jobs the encoder was started for
EncoderJobs   == { encoder_log[i].job : i \in 1..Len(encoder_log) }
\* the jobs that failed before the encoder was reached
FailedEarly   == { j \in Jobs : outcome[j] = "Failed" /\ j \notin EncoderJobs }

\* C9: a failing job stops nothing: the counter counts exactly the failing
\* jobs, the jobs before the current one are all processed, and a run that
\* entered the loop ends with the summary, every job processed.
C9_FailureIsolation ==
    /\ conversion_errors = Cardinality(EncoderFailed \cup FailedEarly)
    /\ \A j \in EncoderJobs : outcome[j] = "Failed" <=> j \in EncoderFailed
    /\ pc \in {"plan", "check", "invoke"} =>
          \A i \in 1..(idx - 1) : outcome[vp6_files[i]] \in Terminal
    /\ (pc \in {"summary", "returned", "exited"} /\ Len(vp6_files) > 0) =>
          /\ \A j \in Jobs : outcome[j] \in Terminal
          /\ exc = "none"
    /\ (pc \in {"returned", "exited"} /\ Len(vp6_files) > 0) => LoopDone

C9_Witness ==
    /\ pc = "exited" /\ summary = "errors"
    /\ Len(vp6_files) >= 2
    /\ outcome[vp6_files[1]] = "Failed"
    /\ \E i \in 1..Len(encoder_log) : encoder_log[i].returncode = -1
    /\ outcome[vp6_files[2]] = "Converted"

\* C10: with a source root that is missing or not a directory no child
\* process is started, nothing is created below the target root, and a run
\* that called the driver ends with a non-zero status.
C10_BadSourceRootIsFatal ==
    ~source_dir_ok(source_tree) =>
        /\ which_calls = 0
        /\ encoder_log = <<>>
        /\ target_tree = tree_at_start
        /\ (pc = "exited" /\ DriverInvoked) => exit_status = 1

C10_Witness ==
    /\ ~source_dir_ok(source_tree)
    /\ pc = "exited" /\ DriverInvoked
    /\ exc = "SystemExit" /\ exit_status = 1
    /\ config = "ok"

StatedStep(a, b) ==
    \/ a = b
    \/ a = "Discovered" /\ b \in {"Skipped", "Converting"}
    \/ a = "Converting" /\ b \in {"Converted", "Failed"}

\* the steps the loop body takes: an exception before the skip check
\* (lines 126-132, caught at line 171) fails a job that was never Converting
LoopStep(a, b) ==
    \/ StatedStep(a, b)
    \/ a = "Discovered" /\ b = "Failed"

\* the encoder is started at most once per job, and the summary comes after
\* every job has reached a terminal state
OncePerJob ==
    /\ \A i, k \in 1..Len(encoder_log) : i # k => encoder_log[i].job # encoder_log[k].job
    /\ (pc = "summary" \/ LoopDone) => \A j \in Jobs : outcome[j] \in Terminal

\* C12 as stated: within a run every job goes Discovered -> Skipped or
\* Discovered -> Converting -> (Converted | Failed), leaves no terminal
\* state, has the encoder started at most once and is terminal at the summary.
C12_StateMachineAsStated ==
    /\ []OncePerJob
    /\ [][ run' = run =>
             \A j \in Jobs : j \in DOMAIN outcome' /\ StatedStep(outcome[j], outcome'[j]) ]_vars

\* C12 amended: as stated, with the additional step Discovered -> Failed
\* taken when creating the target's parent directories raises.
C12_StateMachine ==
    /\ []OncePerJob
    /\ [][ run' = run =>
             \A j \in Jobs : j \in DOMAIN outcome' /\ LoopStep(outcome[j], outcome'[j]) ]_vars

C12_Witness ==
    /\ pc = "exited" /\ LoopDone
    /\ \E j \in Jobs : outcome[j] = "Failed" /\ j \notin EncoderJobs
    /\ \E j \in Jobs : outcome[j] = "Converted"

\* the directories this run has created at or below the target root
Created ==
    { p \in DOMAIN target_tree : is_dir(target_tree, p) /\ p \notin DOMAIN tree_at_start }

\* d is the target root or a directory above the path t
IsAncestor(d, t) == Len(d) < Len(t) /\ SubSeq(t, 1, Len(d)) = d

\* the positions of the jobs whose directories have been asked for: the
\* jobs before the current one, and the current one once line 132 has run
Reached == { i \in 1..Len(vp6_files) : i < idx \/ (i = idx /\ pc # "plan") }

\* C13: the parent directories of a target exist before its encoder runs
\* and are made only when every earlier job is terminal; every directory the
\* run has created is above the target of the current or of an earlier job.
C13_ScopedDirectoryCreation ==
    /\ \A d \in Created : \E i \in Reached : IsAncestor(d, ogv_of(vp6_files[i]))
    /\ pc \in {"check", "invoke"} => is_dir(target_tree, parent(ogv_file))
    /\ \A i \in 1..Len(encoder_log) : is_dir(target_tree, parent(encoder_log[i].target))
    /\ \A i \in Reached : \A k \in 1..(i - 1) : outcome[vp6_files[k]] \in Terminal

C13_Witness ==
    /\ pc = "invoke" /\ idx = 1
    /\ Len(vp6_files) >= 2
    /\ <<>> \in Created
    /\ ~exists(target_tree, parent(ogv_of(vp6_files[2])))

\* the strategy of lines 33-63 that succeeds first, "None" when none does
first_success(c) ==
    IF c.is_absolute /\ c.is_file THEN "absolute"
    ELSE IF c.proj_is_file THEN "project_relative"
    ELSE IF c.mod_is_file THEN "module_relative"
    ELSE IF c.which = "found" THEN "config_path"
    ELSE "None"

\* C14: find_ffmpeg returns what the first successful strategy gives,
\* starting the PATH lookup only when the other three failed, and returns
\* None without raising when all four fail, so that main ends the run itself.
C14_ResolutionOrder ==
    /\ \A c \in FfmpegEnv :
          resolvable(c) =>
              find_ffmpeg(c) = Returns(first_success(c),
                                       IF first_success(c) = "config_path" THEN 1 ELSE 0)
    /\ encoder_found = "no" => (exc = "SystemExit" /\ ffmpeg_executable = "None")

\* this run got as far as the gate of run.main (line 77)
GateReached == config \in {"ok", "no_tools_key"}

\* the driver was entered by this run
DriverEntered ==
    \/ pc \in {"main", "locate", "discover", "plan", "check", "invoke", "summary",
               "returned", "raised"}
    \/ exc # "none" \/ summary # "none" \/ encoder_found # "unknown"

\* C15: with the target directory present at the start, the driver runs
\* only for a script run as __main__ whose user answers 'y'; otherwise no
\* process is started, the target tree stays as it is and the exit is 0.
C15_DirectoryGate ==
    (GateReached /\ exists(tree_at_start, <<>>)) =>
        /\ DriverEntered => (is_main /\ user_input = "y")
        /\ ~(is_main /\ user_input = "y") =>
              /\ pc = "exited" /\ exit_status = 0
              /\ encoder_log = <<>> /\ which_calls = 0
              /\ target_tree = tree_at_start

C15_Witness ==
    /\ GateReached /\ exists(tree_at_start, <<>>)
    /\ pc = "exited" /\ exit_status = 0
    /\ is_main /\ user_input = "other"
    /\ \E j \in DOMAIN prev.outcome : ~exists(target_tree, ogv_of(j))

====
